---- MODULE Spec2Model ----
(***************************************************************************)
(* groupme-gallery-downloader: the download pipeline.                      *)
(*                                                                         *)
(* One process run is modelled from the selection of a group               *)
(* (selectFromAvailableGroups), through processGroupMedia (resume from the *)
(* persisted queue, or mediaListBuilder), to the drain of mediaDownloader  *)
(* with its event handlers (response, end, the 100 ms timer, the per-item  *)
(* timeout, request 'error', file 'error').  The persisted queue (db) and  *)
(* the files on disk survive a restart of the process.                     *)
(***************************************************************************)
EXTENDS Integers, Sequences, FiniteSets, TLC

\* ---------------------------------------------------------------- bounds
MaxItems == 3       \* longest media list (K) of a single run
MaxListed == 2      \* longest media list when the process is restarted
MaxRuns == 2        \* process runs (the first one and restarts)
MaxParallel == 2    \* largest configured concurrency that is enumerated
MaxPages == 2        \* pages of a history that is listed on its own
MaxGroups == 2       \* selected groups
MaxGroupItems == 2   \* longest media list of a group when several are selected
MaxGroupPages == 3   \* answers to GET groups that are scripted
MaxParallelArg == 12 \* largest value given to --parallel
\* the longest sender name tried
MaxNameLen == 3
\* pages a listing is followed beyond the length of the history
MaxRefetch == 2
\* POST /api/download requests that name the group
MaxPosts == 2

Urls == 1..MaxItems

\* media item: url is the identity; ok = the url is a string containing
\* 'groupme.com'; user = the item carries a user name
Item(u, ok, user) == [url |-> u, ok |-> ok, user |-> user]

VARIABLES
  db,            \* persisted group record: [exists, media]   (db.getGroup)
  disk,          \* urls whose destination file exists on disk
  fetched,       \* urls whose download succeeded in an earlier run
  run,           \* number of the current process run
  remote,        \* image attachments of the remote history, in listing order
  history,       \* the remote message history as the server pages it
  L,             \* state of the mediaListBuilder call (locals + fetch in flight)
  sel,           \* the loop over the selected groups
  io,            \* the last call of a start-up or path function: input, output
  jobs,          \* GUI server: the processGroups calls started by POST /api/download
  parallelCount, \* configured concurrency (getParallelCount)
  pc,            \* position of processGroupmeData
  crashed,       \* an uncaught exception ended the process
  listCalls,     \* calls of mediaListBuilder in this run
  dbAtStart,     \* what db.getGroup returned in processGroupMedia
  mediaList,     \* mediaList.media, the argument of mediaDownloader
  d              \* state of the mediaDownloader invocation (closure + events)

vars == <<db, disk, fetched, run, remote, history, L, sel, io, jobs, parallelCount, pc,
          crashed,
          listCalls, dbAtStart, mediaList, d>>

\* ------------------------------------------------------------ queue store
\* db.createGroup(id): creates the record of a group that has none
createGroup(g) == IF g.exists THEN g ELSE [exists |-> TRUE, media |-> <<>>]

\* delete by position: the position of a url that is not there is taken
\* for the last one
removeMediaItemSplice(g, u) ==
  IF ~g.exists THEN g
  ELSE IF \E i \in 1..Len(g.media) : g.media[i].url = u
       THEN [g EXCEPT !.media = SelectSeq(@, LAMBDA m : m.url # u)]
       ELSE [g EXCEPT !.media = SubSeq(@, 1, Len(@) - 1)]

\* db.removeMediaItem(groupId, {url}): delete by key
removeMediaItem(g, u) ==
  IF g.exists THEN [g EXCEPT !.media = SelectSeq(@, LAMBDA m : m.url # u)]
  ELSE g

\* the test of processGroupMedia with the length test negated
HasPendingInverted(g) == g.exists /\ Len(g.media) = 0

\* localGroupData && localGroupData.media && !!localGroupData.media.length
HasPending(g) == g.exists /\ Len(g.media) > 0

\* ------------------------------------------------------- remote service
\* attachment of a message; message; a page is a sequence of messages
Att(type, u, ok) == [type |-> type, url |-> u, ok |-> ok]
Msg(id, named, atts) == [id |-> id, named |-> named, atts |-> atts]

\* limit=100 of the messages endpoint
Limit == 100

\* the history whose listing is remote: one page, one image per message
PagesOf(list) ==
  IF list = <<>> THEN <<>>
  ELSE << [i \in 1..Len(list) |->
             Msg(i, TRUE, <<Att("image", list[i].url, list[i].ok)>>)] >>

\* GET groups/{id}/messages?limit=100[&before_id=X] answered 200: the first
\* page without before_id, else the page after the one that ends with X
ServerPage(hist, before) ==
  IF before = 0 THEN (IF hist = <<>> THEN <<>> ELSE hist[1])
  ELSE LET js == {j \in 1..Len(hist) : hist[j][Len(hist[j])].id = before}
       IN IF js = {} THEN <<>>
          ELSE LET j == CHOOSE k \in js : TRUE
               IN IF j < Len(hist) THEN hist[j + 1] ELSE <<>>

\* pages of messages with images, other attachments, repeated urls, no
\* attachments and no sender name; message ids differ between pages
PageCatalogue ==
  { << Msg(11, TRUE, <<Att("image", 1, TRUE)>>),
       Msg(12, FALSE, <<Att("video", 2, TRUE), Att("image", 2, TRUE),
                        Att("image", 1, TRUE)>>) >>,
    << Msg(21, TRUE, <<Att("image", 2, TRUE)>>),
       Msg(22, TRUE, <<>>) >>,
    << Msg(31, TRUE, <<Att("video", 3, TRUE)>>) >>,
    << Msg(41, TRUE, <<Att("image", 3, TRUE), Att("image", 3, TRUE)>>) >> }

\* a full page of Limit messages followed by a page of ShortPage messages
ShortPage == 40
FullThenShort ==
  << [i \in 1..Limit |->
        Msg(100 + i, TRUE, IF i = 1 THEN <<Att("image", 1, TRUE)>> ELSE <<>>)],
     [i \in 1..ShortPage |->
        Msg(100 + Limit + i, TRUE,
            IF i = ShortPage THEN <<Att("image", 2, TRUE)>> ELSE <<>>)] >>

\* a page whose last message has the id 0
ZeroIdPage == << Msg(51, TRUE, <<Att("image", 1, TRUE)>>), Msg(0, TRUE, <<>>) >>

\* histories of at most MaxPages different pages of the catalogue
Histories ==
  { h \in UNION {[1..n -> PageCatalogue] : n \in 0..MaxPages} :
      \A i, j \in 1..Len(h) : i # j => h[i] # h[j] }
  \cup {FullThenShort, <<ZeroIdPage>>}

\* the image attachments of a sequence of messages, first occurrences only,
\* in the order of message and attachment
ImagesOf(messages) ==
  LET Occ == {o \in UNION {{<<m, a>> : a \in 1..Len(messages[m].atts)} :
                              m \in 1..Len(messages)} :
                messages[o[1]].atts[o[2]].type = "image"}
      At(o) == messages[o[1]].atts[o[2]]
      Earlier(o, q) == o[1] < q[1] \/ (o[1] = q[1] /\ o[2] < q[2])
      Firsts == {o \in Occ : \A q \in Occ : At(q).url = At(o).url => ~Earlier(q, o)}
      n == Cardinality(Firsts)
      order == CHOOSE f \in [1..n -> Firsts] :
                 \A i, k \in 1..n : i < k => Earlier(f[i], f[k])
  IN [i \in 1..n |-> Item(At(order[i]).url, At(order[i]).ok, TRUE)]

RECURSIVE Flatten(_)
Flatten(pages) == IF pages = <<>> THEN <<>> ELSE Head(pages) \o Flatten(Tail(pages))

\* statuses the service answers with
Statuses == {200, 304, 401, 404, 429, 500}

\* ------------------------------------------------------- mediaListBuilder
\* one attempt more
maxRetriesFour == 2 + 2

maxRetries == 3
baseDelay == 1000

RECURSIVE Pow2(_)
Pow2(n) == IF n = 0 THEN 1 ELSE 2 * Pow2(n - 1)

NoListing ==
  [ state     |-> "idle",     \* idle/fetching/returned/threw
    stage     |-> "group",    \* the request in flight: group info or a page
    attempt   |-> 0,          \* attempt of apiRequest
    beforeId  |-> 0,          \* 0 is null
    allMedia  |-> <<>>,
    seen      |-> {},         \* downloadUrls
    pages     |-> 0,          \* non-empty pages processed
    log       |-> <<>>,       \* requests answered so far: [ep, before, status]
    waits     |-> <<>>,       \* delays before retries: [attempt, delay]
    error     |-> "none",     \* none/auth/status/other
    errStatus |-> 0 ]

\* the attachment is pushed whatever was pushed before
IsNewNoDedup(l, att) == att.type = "image"

\* att.type === 'image' && !downloadUrls.has(att.url)
IsNew(l, att) == att.type = "image" /\ att.url \notin l.seen

\* msg.attachments.filter(image).forEach: push the urls not yet seen
RECURSIVE AddAtts(_, _)
AddAtts(l, atts) ==
  IF atts = <<>> THEN l
  ELSE LET att == Head(atts)
       IN IF IsNew(l, att)
          THEN AddAtts([l EXCEPT !.seen = @ \cup {att.url},
                                 !.allMedia = Append(@, Item(att.url, att.ok, TRUE))],
                       Tail(atts))
          ELSE AddAtts(l, Tail(atts))

\* messages.forEach over messages[lo..hi], left to right (the range is
\* halved to keep the evaluation shallow on a page of Limit messages; a
\* left half that pushed nothing leaves l as it is)
RECURSIVE AddRange(_, _, _, _)
AddRange(l, messages, lo, hi) ==
  IF lo > hi THEN l
  ELSE IF lo = hi THEN AddAtts(l, messages[lo].atts)
  ELSE LET mid == (lo + hi) \div 2
           left == AddRange(l, messages, lo, mid)
       IN IF left.seen = {} THEN AddRange(l, messages, mid + 1, hi)
          ELSE AddRange(left, messages, mid + 1, hi)

\* messages.forEach
AddMessages(l, messages) == AddRange(l, messages, 1, Len(messages))

\* throw inside the try of mediaListBuilder, rewrapped by its catch
ListThrow(l, kind, status) ==
  [l EXCEPT !.state = "threw", !.error = kind, !.errStatus = status]

\* mediaListBuilder, were a page answered 304 an error like other statuses
ListContinue304Fails(l, status, hist) ==
  IF l.stage = "group"
  THEN IF status = 200
       THEN [l EXCEPT !.stage = "page", !.attempt = 0]
       ELSE ListThrow(l, "other", status)
  ELSE IF status # 200
       THEN IF status = 401 THEN ListThrow(l, "auth", status)
            ELSE ListThrow(l, "status", status)
       ELSE LET messages == ServerPage(hist, l.beforeId)
            IN IF Len(messages) = 0
               THEN [l EXCEPT !.state = "returned"]
               ELSE [AddMessages(l, messages) EXCEPT
                       !.beforeId = messages[Len(messages)].id,
                       !.pages = @ + 1,
                       !.attempt = 0]

\* mediaListBuilder after apiRequest returned a response with this status
\* (for 304 and 404 apiRequest returns a plain object without json())
ListContinue(l, status, hist) ==
  IF l.stage = "group"
  THEN IF status = 200
       THEN [l EXCEPT !.stage = "page", !.attempt = 0]
       ELSE ListThrow(l, "other", status)   \* groupResponse.json / .response.name
  ELSE IF status # 200 /\ status # 304
       THEN IF status = 401 THEN ListThrow(l, "auth", status)
            ELSE ListThrow(l, "status", status)
       ELSE LET messages == IF status = 304 THEN <<>> ELSE ServerPage(hist, l.beforeId)
            IN IF Len(messages) = 0
               THEN [l EXCEPT !.state = "returned"]
               ELSE [AddMessages(l, messages) EXCEPT
                       !.beforeId = messages[Len(messages)].id,
                       !.pages = @ + 1,
                       !.attempt = 0]

\* apiRequest without the retry loop
ListAnswerNoRetry(l, status, hist) ==
  ListContinue([l EXCEPT !.log = Append(@, [ep |-> l.stage, before |-> l.beforeId,
                                            status |-> status])],
               status, hist)

\* the fetch of apiRequest is answered: retry on 429, else hand the response
\* to mediaListBuilder
ListAnswer(l, status, hist) ==
  LET l1 == [l EXCEPT !.log = Append(@, [ep |-> l.stage, before |-> l.beforeId,
                                         status |-> status])]
  IN IF status = 429 /\ l.attempt + 1 < maxRetries
     THEN [l1 EXCEPT !.attempt = @ + 1,
                     !.waits = Append(@, [attempt |-> l.attempt + 1,
                                          delay |-> baseDelay * Pow2(l.attempt + 1)])]
     ELSE ListContinue(l1, status, hist)

\* ------------------------------------------------- mediaDownloader closure
NoDrain ==
  [ arr      |-> <<>>,                      \* working copy that is shifted
    arg      |-> <<>>,                      \* mediaList.media, the array passed in
    taken    |-> <<>>,                      \* items shifted so far, in order
    total    |-> 0,                         \* TOTAL_PHOTOS
    phase    |-> [u \in Urls |-> "none"],   \* none/requesting/streaming/ended/over
    timer    |-> [u \in Urls |-> FALSE],    \* downloadTimeout armed
    reqErr   |-> [u \in Urls |-> FALSE],    \* 'error' pending on a destroyed request
    post     |-> [u \in Urls |-> FALSE],    \* 100 ms timer after 'end' pending
    file     |-> [u \in Urls |-> "none"],   \* none/open/ending/finished/errored
    mtime    |-> [u \in Urls |-> "none"],   \* none/kept/created/failed (utimesSync)
    cur      |-> [u \in Urls |-> 0],        \* curr of the downloader call
    outcomes |-> [u \in Urls |-> <<>>],     \* terminal branches that ran
    removes  |-> [u \in Urls |-> 0],        \* removeMediaItem calls
    requests |-> [u \in Urls |-> 0],        \* requestMediaItem calls
    advances |-> [u \in Urls |-> 0],        \* handlers of the item that went on
    disk     |-> {},
    before   |-> {},                        \* files that were there at the call
    db       |-> [exists |-> FALSE, media |-> <<>>],
    promise  |-> "none",                    \* none/pending/resolved/rejected
    value    |-> "none",                    \* what the promise resolved with
    threw    |-> FALSE ]                    \* an exception left the call

\* resolve(): settles a pending promise with undefined, no effect afterwards
Resolve(s) ==
  IF s.promise = "pending"
  THEN [s EXCEPT !.promise = "resolved", !.value = "undefined"]
  ELSE s

\* a terminal branch is entered: its log line classifies the item
Outcome(s, u, outcome) == [s EXCEPT !.outcomes[u] = Append(@, outcome)]

\* db.removeMediaItem(mediaList.groupId, { url: URL })
Remove(s, u) == [s EXCEPT !.removes[u] = @ + 1, !.db = removeMediaItem(@, u)]

\* a handler of item u goes on: return downloader(arr, curr + 1) or resolve()
Advance(s, u) == [s EXCEPT !.advances[u] = @ + 1]

\* lines 152-158 and 276: renameFile, createWriteStream, requestMediaItem,
\* setTimeout(DOWNLOAD_TIMEOUT), request.end()
StartDownload(s, u, curr) ==
  [s EXCEPT !.phase[u] = "requesting",
            !.file[u] = "open",
            !.disk = @ \cup {u},
            !.timer[u] = TRUE,
            !.cur[u] = curr,
            !.requests[u] = @ + 1]

\* arr.shift(), were arr the array of the argument and not a copy of it
ShiftArgument(s) ==
  [s EXCEPT !.arr = Tail(@), !.arg = Tail(@), !.taken = Append(@, Head(s.arr))]

\* arr.shift()
Shift(s) == [s EXCEPT !.arr = Tail(@), !.taken = Append(@, Head(s.arr))]

\* every item passes the test of the url
ValidUrlAlways(mediaItem) == TRUE

\* URL is a non-empty string that contains groupme.com
ValidUrl(mediaItem) == mediaItem.ok

\* downloader(arr, curr)
RECURSIVE downloader(_, _)
downloader(s, curr) ==
  IF Len(s.arr) > 0 THEN
    LET mediaItem == Head(s.arr)
        s1 == Shift(s)
    IN IF ~ValidUrl(mediaItem)
       THEN downloader(Remove(Outcome(s1, mediaItem.url, "invalid-url"), mediaItem.url),
                       curr + 1)
       ELSE IF ~mediaItem.user
       THEN [s1 EXCEPT !.threw = TRUE]      \* renameFile: userName.split
       ELSE StartDownload(s1, mediaItem.url, curr)
  ELSE Resolve(s)

\* mediaDownloader(mediaList): the promise executor
mediaDownloader(list, g, files) ==
  LET s0 == [NoDrain EXCEPT !.total = Len(list), !.arg = list, !.db = g, !.disk = files,
                            !.before = files, !.promise = "pending"]
      s1 == IF Len(list) > 0 THEN downloader([s0 EXCEPT !.arr = list], 1)
            ELSE Resolve(s0)
  IN IF s1.threw THEN [s1 EXCEPT !.promise = "rejected", !.threw = FALSE]
     ELSE s1

\* request.destroy(): no further event of the response; a request that has
\* no response yet emits 'error' (socket hang up) on the runtimes that
\* report a destroyed request, and nothing on the others
Destroy(s, u, emits) ==
  [s EXCEPT !.phase[u] = "over",
            !.reqErr[u] = (s.phase[u] = "requesting" /\ emits)]

\* file.end()
FileEnd(s, u) == [s EXCEPT !.file[u] = IF @ = "open" THEN "ending" ELSE @]

\* if (fs.existsSync(filePath)) fs.unlinkSync(filePath), when unlinkSync
\* succeeds; the handlers model its exception (EPERM, EBUSY, ...) themselves
Unlink(s, u) == [s EXCEPT !.disk = @ \ {u}]

\* ------------------------------------------------------- text and paths
\* A string is the sequence of its characters.
Space == " "

\* t occurs in s at position i
OccursAt(s, t, i) == i >= 1 /\ i + Len(t) - 1 <= Len(s) /\ SubSeq(s, i, i + Len(t) - 1) = t

\* the positions where t occurs in s
Occurrences(s, t) == {i \in 1..Len(s) : OccursAt(s, t, i)}

Min(S) == CHOOSE x \in S : \A y \in S : x <= y
Max(S) == CHOOSE x \in S : \A y \in S : x >= y

\* String.prototype.trim
Trim(s) ==
  LET kept == {i \in 1..Len(s) : s[i] # Space}
  IN IF kept = {} THEN <<>> ELSE SubSeq(s, Min(kept), Max(kept))

\* s.replace(/[class]/g, c): every character of the class becomes c
ReplaceAll(s, class, c) == [i \in 1..Len(s) |-> IF s[i] \in class THEN c ELSE s[i]]

\* s.replace(' ', c) with a string pattern: the first occurrence only
ReplaceFirst(s, ch, c) ==
  LET at == {i \in 1..Len(s) : s[i] = ch}
  IN IF at = {} THEN s ELSE [s EXCEPT ![Min(at)] = c]

\* the class [<|>|:|"|\/|\|||\?|\*\]|&] of sanitizeString
SanitizedClass == {"<", "|", ">", ":", "\"", "/", "?", "*", "]", "&"}

\* sanitizeString of media-list-builder.js
sanitizeString(string) ==
  ReplaceAll(ReplaceFirst(Trim(string), Space, "-"), SanitizedClass, "_")

UnknownUser == <<"U", "n", "k", "n", "o", "w", "n", "U", "s", "e", "r">>

\* user: msg.name ? sanitizeString(msg.name) : 'UnknownUser'
userOf(name) == IF name = <<>> THEN UnknownUser ELSE sanitizeString(name)

Unknown == <<"u", "n", "k", "n", "o", "w", "n">>
ImageHost == <<"i", ".", "g", "r", "o", "u", "p", "m", "e", ".", "c", "o", "m">>
IMAGE_FILE_TYPES == {<<"p", "n", "g">>, <<"j", "p", "e", "g">>, <<"j", "p", "g">>, <<"g", "i", "f">>, <<"b", "m", "p">>, <<"w", "e", "b", "p">>}
VIDEO_FILE_TYPES == {<<"m", "p", "4">>, <<"m", "o", "v">>, <<"w", "m", "v">>, <<"m", "k", "v">>, <<"w", "e", "b", "m">>}

\* the length of the hash that ends an image url
HashLen == 32

\* url.parse(fileUrl).hostname: what stands between "//" and the next "/"
Hostname(fileUrl) ==
  LET slashes == Occurrences(fileUrl, <<"/", "/">>)
  IN IF slashes = {} THEN <<>>
     ELSE LET from == Min(slashes) + 2
              ends == {i \in from..Len(fileUrl) : fileUrl[i] = "/"}
          IN SubSeq(fileUrl, from, IF ends = {} THEN Len(fileUrl) ELSE Min(ends) - 1)

\* /(.{32})\s*$/.exec(fileUrl): the last 32 characters (the urls modelled
\* hold no white space), or 'unknown'
imageHashOf(fileUrl) ==
  IF Len(fileUrl) >= HashLen
  THEN SubSeq(fileUrl, Len(fileUrl) - HashLen + 1, Len(fileUrl))
  ELSE Unknown

\* /([^/]+$)/.exec(fileUrl)[0].split('.')[0]: what follows the last slash,
\* up to its first dot, or 'unknown'
videoHashOf(fileUrl) ==
  IF fileUrl = <<>> \/ fileUrl[Len(fileUrl)] = "/" THEN Unknown
  ELSE LET slashes == {i \in 1..Len(fileUrl) : fileUrl[i] = "/"}
           from == IF slashes = {} THEN 1 ELSE Max(slashes) + 1
           dots == {i \in from..Len(fileUrl) : fileUrl[i] = "."}
       IN SubSeq(fileUrl, from, IF dots = {} THEN Len(fileUrl) ELSE Min(dots) - 1)

\* fileTypes.exec(fileUrl): the leftmost extension of the class, with its dot
\* (<<>> stands for no match)
fileTypeMatch(fileUrl, fileTypes) ==
  LET hits == {i \in 1..Len(fileUrl) : \E e \in fileTypes : OccursAt(fileUrl, <<".">> \o e, i)}
  IN IF hits = {} THEN <<>>
     ELSE LET e == CHOOSE x \in fileTypes : OccursAt(fileUrl, <<".">> \o x, Min(hits))
          IN <<".">> \o e

\* the defaults taken for the other class
defaultTypeSwapped(isImage) == IF isImage THEN <<".", "m", "p", "4">> ELSE <<".", "j", "p", "g">>

\* the extension of a url that shows none
defaultType(isImage) == IF isImage THEN <<".", "j", "p", "g">> ELSE <<".", "m", "p", "4">>

\* the hash used by renameFile
hashOf(fileUrl) ==
  IF Hostname(fileUrl) = ImageHost THEN imageHashOf(fileUrl) ELSE videoHashOf(fileUrl)

\* renameFile(fileUrl, userName)
renameFile(fileUrl, userName) ==
  LET isImage == Hostname(fileUrl) = ImageHost
      possibleFileType ==
        fileTypeMatch(fileUrl, IF isImage THEN IMAGE_FILE_TYPES ELSE VIDEO_FILE_TYPES)
      user == ReplaceAll(userName, {Space}, "_")
      fileType == IF possibleFileType # <<>> THEN possibleFileType ELSE defaultType(isImage)
  IN user \o <<"-">> \o hashOf(fileUrl) \o fileType

\* ----------------------------------------------------- media organizer
\* [a-zA-Z0-9\-_]
WordChars == {"a", "b", "c", "d", "e", "f", "g", "h", "i", "j", "k", "l", "m", "n", "o", "p", "q", "r", "s", "t", "u", "v", "w", "x", "y", "z", "A", "B", "C", "D", "E", "F", "G", "H", "I", "J", "K", "L", "M", "N", "O", "P", "Q", "R", "S", "T", "U", "V", "W", "X", "Y", "Z", "0", "1", "2", "3", "4", "5", "6", "7", "8", "9", "-", "_"}

\* the class [<>:"\/\\|?*] of the organizer's sanitizeString
OrganizerClass == {"<", ">", ":", "\"", "/", "\\", "|", "?", "*"}

\* the characters of s at the positions K, in their order
Pick(s, K) ==
  [j \in 1..Cardinality(K) |-> s[CHOOSE i \in K : Cardinality({k \in K : k <= i}) = j]]

\* s.replace(/\s+/g, '-'): each run of white space becomes one dash
DashRuns(s) ==
  ReplaceAll(Pick(s, {i \in 1..Len(s) : s[i] # Space \/ i = 1 \/ s[i - 1] # Space}),
             {Space}, "-")

\* sanitizeString of media-organizer.js
organizerSanitizeString(string) ==
  IF string = <<>> THEN Unknown
  ELSE LET dashed == ReplaceAll(DashRuns(Trim(string)), OrganizerClass, "_")
       IN [i \in 1..Len(dashed) |-> IF dashed[i] \in WordChars THEN dashed[i] ELSE "_"]

\* getHashFromUrl(url)
getHashFromUrl(url) == IF Len(url) >= HashLen THEN imageHashOf(url) ELSE videoHashOf(url)

\* getExtensionFromUrl(url)
getExtensionFromUrl(url) ==
  LET isImage == Occurrences(url, ImageHost) # {}
      match == fileTypeMatch(url, IF isImage THEN IMAGE_FILE_TYPES ELSE VIDEO_FILE_TYPES)
  IN IF match # <<>> THEN match ELSE defaultType(isImage)

\* A date is its calendar fields and its milliseconds; NoDate is the
\* created field of an item that has none.
NoDate == [year |-> <<>>, month |-> <<>>, day |-> <<>>, time |-> <<>>, ms |-> 0]

MonthName(month) == IF month = <<"0", "1">> THEN <<"J", "a", "n", "u", "a", "r", "y">> ELSE <<"N", "o", "v", "e", "m", "b", "e", "r">>

\* successive readings of the clock
DateLine ==
  << [year |-> <<"2", "0", "2", "0">>, month |-> <<"0", "1">>, day |-> <<"0", "1">>, time |-> <<"0", "0", "0", "0", "0", "0">>, ms |-> 0],
     [year |-> <<"2", "0", "2", "0">>, month |-> <<"0", "1">>, day |-> <<"0", "1">>, time |-> <<"0", "0", "0", "0", "0", "0">>, ms |-> 500],
     [year |-> <<"2", "0", "2", "0">>, month |-> <<"0", "1">>, day |-> <<"0", "1">>, time |-> <<"0", "0", "0", "0", "0", "1">>, ms |-> 0],
     [year |-> <<"2", "0", "2", "1">>, month |-> <<"1", "1">>, day |-> <<"0", "1">>, time |-> <<"0", "0", "0", "0", "0", "0">>, ms |-> 0] >>

\* format(date, 'yyyy'), format(date, 'MM-MMMM'), format(date, 'yyyyMMdd-HHmmss')
formatYear(date) == date.year
formatMonth(date) == date.month \o <<"-">> \o MonthName(date.month)
formatStamp(date) == date.year \o date.month \o date.day \o <<"-">> \o date.time

\* path.join
pathJoin(a, b) == a \o <<"/">> \o b

\* generateFileName(mediaItem), the clock reading now
generateFileName(mediaItem, now) ==
  LET createdDate == IF mediaItem.created # NoDate THEN mediaItem.created ELSE now
  IN organizerSanitizeString(mediaItem.user) \o <<"-">> \o formatStamp(createdDate)
       \o <<"-">> \o getHashFromUrl(mediaItem.url) \o getExtensionFromUrl(mediaItem.url)

\* the directory getOrganizedFilePath chooses
outputDirOf(options, mediaItem, now) ==
  LET createdDate == IF mediaItem.created # NoDate THEN mediaItem.created ELSE now
      groupDir == pathJoin(options.baseDir, options.groupId)
  IN CASE options.method = "date" ->
            pathJoin(pathJoin(groupDir, formatYear(createdDate)), formatMonth(createdDate))
       [] options.method = "user" -> pathJoin(groupDir, organizerSanitizeString(mediaItem.user))
       [] OTHER -> groupDir

\* getOrganizedFilePath(options, mediaItem): now and later are its two
\* readings of the clock, dirs the directories that exist
getOrganizedFilePath(options, mediaItem, now, later, dirs) ==
  LET outputDir == outputDirOf(options, mediaItem, now)
  IN [path |-> pathJoin(outputDir, generateFileName(mediaItem, later)),
      dirs |-> IF outputDir \notin dirs THEN dirs \cup {outputDir} ELSE dirs]

\* ------------------------------------------------- start-up functions
\* no function was called
NoCall == [fn |-> "none"]

\* fetchAvailableGroups over the answers to GET groups?page=N: a 401 throws
\* inside the try of the loop, whose catch logs and ends the loop; a page
\* without groups (or an error body, response: null) ends it too; what was
\* collected is returned.  Pages past the answers given are empty.
RECURSIVE fetchAvailableGroups(_, _, _)
fetchAvailableGroups(answers, page, allGroups) ==
  IF page > Len(answers) THEN [groups |-> allGroups, threw |-> "none"]
  ELSE LET a == answers[page]
       IN IF a.status = 401 THEN [groups |-> allGroups, threw |-> "none"]
          ELSE IF a.status = 200 /\ Len(a.groups) > 0
          THEN fetchAvailableGroups(answers, page + 1, allGroups \o a.groups)
          ELSE [groups |-> allGroups, threw |-> "none"]

\* selectFromAvailableGroups up to the prompt: throws when no group came
selectGroupsFrom(answers) ==
  LET r == fetchAvailableGroups(answers, 1, <<>>)
  IN IF Len(r.groups) = 0 THEN [r EXCEPT !.threw = "no-groups"] ELSE r

\* getAuthToken with the stored token preferred to the argument
getAuthTokenStoredFirst(in) ==
  IF in.stored # "" THEN [token |-> in.stored, stored |-> in.stored, exit |-> FALSE]
  ELSE IF in.argToken # "" THEN [token |-> in.argToken, stored |-> in.argToken, exit |-> FALSE]
  ELSE [token |-> "", stored |-> in.stored, exit |-> TRUE]

\* getAuthToken: in is the --token argument ("" when absent), the
\* --non-interactive flag, the token of db.getToken() ("" when none) and the
\* answers to the prompts; the result is the token returned, the token
\* record afterwards and whether process.exit(1) was called
getAuthToken(in) ==
  IF in.argToken # ""
  THEN [token |-> in.argToken, stored |-> in.argToken, exit |-> FALSE]
  ELSE IF ~in.interactive /\ in.stored # ""
  THEN [token |-> in.stored, stored |-> in.stored, exit |-> FALSE]
  ELSE IF ~in.interactive
  THEN [token |-> "", stored |-> in.stored, exit |-> TRUE]
  ELSE IF in.stored # "" /\ in.useCached
  THEN [token |-> in.stored, stored |-> in.stored, exit |-> FALSE]
  ELSE [token |-> in.typed, stored |-> in.typed, exit |-> FALSE]

\* parseCommandLineArgs, options.parallel: arg is the value after
\* --parallel as parseInt reads it
parallelOf(arg) ==
  IF arg.given
  THEN IF ~arg.nan /\ arg.value > 0 THEN arg.value ELSE 3
  ELSE 3

\* getParallelCount: options.parallel is never 0, so it is returned
getParallelCount(arg) == parallelOf(arg)

\* ------------------------------------------------------------------- Init
\* The remote history holds K image attachments with distinct urls (the
\* listing deduplicates), some of them not pointing to groupme.com.  The
\* store is what data/db.json holds when the process starts: no record of
\* the group, an empty queue, or the queue an earlier process left, in which
\* an item may lack the user field (downloader only validates url).
GroupStates(maxK) ==
  UNION { UNION {
    { [remote |-> [i \in 1..K |-> Item(i, i \notin bad, TRUE)], db |-> x] :
        x \in {[exists |-> FALSE, media |-> <<>>], [exists |-> TRUE, media |-> <<>>]}
              \cup {[exists |-> TRUE,
                     media |-> [i \in 1..K |-> Item(i, i \notin bad, i # nouser)]] :
                      nouser \in IF K > 0 THEN 0..K ELSE {}} }
    : bad \in SUBSET (1..K) } : K \in 0..maxK }

\* groupIds has n entries, the loop is at the first, nothing has happened
Selection(n) ==
  [n |-> n, i |-> 1, invoked |-> {}, errors |-> 0, failedAt |-> 0, events |-> <<>>]

\* socketIO.emit(name, {...}) of processGroups and processGroupMedia
Emit(sl, name, arg) == [sl EXCEPT !.events = Append(@, [name |-> name, arg |-> arg])]

InitK(maxK, maxN) ==
  /\ \E g \in GroupStates(maxK) :
       /\ remote = g.remote
       /\ history = PagesOf(g.remote)
       /\ db = g.db
  /\ \E n \in 1..maxN : sel = Selection(n)
  /\ disk = {}
  /\ fetched = {}
  /\ run = 1
  /\ parallelCount = 1
  /\ pc = "boot"
  /\ crashed = FALSE
  /\ listCalls = 0
  /\ dbAtStart = [exists |-> FALSE, media |-> <<>>]
  /\ mediaList = <<>>
  /\ L = NoListing
  /\ io = NoCall
  /\ jobs = <<>>
  /\ d = NoDrain

\* --------------------------------------------------------------- actions
\* the closure's view of the store and of the disk is the store and the disk
Commit(s) ==
  /\ d' = [s EXCEPT !.threw = FALSE]
  /\ db' = s.db
  /\ disk' = s.disk
  /\ crashed' = s.threw

\* selectFromAvailableGroups: db.createGroup(id); getParallelCount()
SelectFromAvailableGroups ==
  /\ pc = "boot" /\ ~crashed
  /\ db' = createGroup(db)
  /\ \E p \in 1..MaxParallel : parallelCount' = p
  /\ pc' = "ready"
  /\ sel' = Emit(Emit(sel, "downloadStarted", sel.n), "groupProcessing", sel.i)
  /\ UNCHANGED <<disk, fetched, io, jobs, run, remote, history, L, crashed, listCalls,
                 dbAtStart, mediaList, d>>

\* processGroupMedia, the branch that resumes the persisted queue
ProcessGroupMediaResume ==
  /\ pc = "ready" /\ ~crashed
  /\ HasPending(db)
  /\ dbAtStart' = db
  /\ mediaList' = db.media
  /\ LET s == mediaDownloader(db.media, db, disk) IN
       /\ d' = s /\ db' = s.db /\ disk' = s.disk
  /\ sel' = [Emit(sel, "mediaProcessing", sel.i) EXCEPT !.invoked = @ \cup {sel.i}]
  /\ pc' = "draining"
  /\ UNCHANGED <<fetched, io, jobs, run, remote, history, L, parallelCount, crashed, listCalls>>

\* processGroupMedia, the branch that calls mediaListBuilder
ProcessGroupMediaList ==
  /\ pc = "ready" /\ ~crashed
  /\ ~HasPending(db)
  /\ dbAtStart' = db
  /\ listCalls' = listCalls + 1
  /\ L' = [NoListing EXCEPT !.state = "fetching"]   \* apiRequest(token, groups/id)
  /\ pc' = "listing"
  /\ UNCHANGED <<db, disk, fetched, io, jobs, run, remote, history, sel, parallelCount, crashed,
                 mediaList, d>>

\* a fetch of the listing is answered and the listing goes on, returns or throws
ListingAnswer ==
  /\ pc = "listing" /\ ~crashed
  /\ L.state = "fetching"
  /\ L.pages < Len(history) + MaxRefetch
  /\ \E status \in Statuses : L' = ListAnswer(L, status, history)
  /\ UNCHANGED <<db, disk, fetched, io, jobs, run, remote, history, sel, parallelCount, pc, crashed,
                 listCalls, dbAtStart, mediaList, d>>

\* mediaListBuilder returned {groupId, groupName, media, token}:
\* processGroupMedia goes on with mediaDownloader(mediaListFromRemote)
MediaListBuilt ==
  /\ pc = "listing" /\ ~crashed
  /\ L.state = "returned"
  /\ mediaList' = L.allMedia
  /\ LET s == mediaDownloader(L.allMedia, db, disk) IN
       /\ d' = s /\ db' = s.db /\ disk' = s.disk
  /\ L' = NoListing
  /\ sel' = [Emit(sel, "mediaProcessing", sel.i) EXCEPT !.invoked = @ \cup {sel.i}]
  /\ pc' = "draining"
  /\ UNCHANGED <<fetched, io, jobs, run, remote, history, parallelCount, crashed, listCalls, dbAtStart>>

\* the for loop goes to groupIds[i + 1] and calls processGroupMedia for it.
\* The model follows the group that is being processed: its record in the
\* store (created by selectFromAvailableGroups), its history and its media
\* directory; events of the closure of an earlier group are not followed.
NextGroup ==
  /\ \E g \in GroupStates(MaxGroupItems) :
       /\ remote' = g.remote
       /\ history' = PagesOf(g.remote)
       /\ db' = createGroup(g.db)
  /\ disk' = {}
  /\ d' = NoDrain
  /\ L' = NoListing
  /\ mediaList' = <<>>
  /\ dbAtStart' = [exists |-> FALSE, media |-> <<>>]
  /\ listCalls' = 0
  /\ pc' = "ready"

\* mediaListBuilder threw, were the error caught inside the loop
MediaListFailedGoesOn ==
  /\ pc = "listing" /\ ~crashed
  /\ L.state = "threw"
  /\ IF sel.i < sel.n
     THEN /\ NextGroup
          /\ sel' = [Emit(Emit(sel, "downloadError", sel.i), "groupProcessing", sel.i + 1)
                       EXCEPT !.errors = @ + 1, !.failedAt = sel.i, !.i = @ + 1]
     ELSE /\ pc' = "failed"
          /\ sel' = [Emit(sel, "downloadError", sel.i)
                       EXCEPT !.errors = @ + 1, !.failedAt = sel.i]
          /\ UNCHANGED <<db, disk, remote, history, L, listCalls, dbAtStart, mediaList, d>>
  /\ UNCHANGED <<fetched, io, jobs, run, parallelCount, crashed>>

\* mediaListBuilder threw: the catch around the loop logs the error (the
\* GUI emits downloadError) and the function ends
MediaListFailed ==
  /\ pc = "listing" /\ ~crashed
  /\ L.state = "threw"
  /\ pc' = "failed"
  /\ sel' = [Emit(sel, "downloadError", sel.i) EXCEPT !.errors = @ + 1, !.failedAt = sel.i]
  /\ UNCHANGED <<db, disk, fetched, io, jobs, run, remote, history, L, parallelCount, crashed,
                 listCalls, dbAtStart, mediaList, d>>

\* await mediaDownloader(...) continues: next group, or the loop is over
DrainResolved ==
  /\ pc = "draining" /\ ~crashed
  /\ d.promise = "resolved"
  /\ IF sel.i < sel.n
     THEN /\ NextGroup
          /\ sel' = [Emit(sel, "groupProcessing", sel.i + 1) EXCEPT !.i = @ + 1]
     ELSE /\ pc' = "finished"
          /\ sel' = Emit(sel, "downloadCompleted", sel.n)
          /\ UNCHANGED <<db, disk, remote, history, L, listCalls, dbAtStart,
                         mediaList, d>>
  /\ UNCHANGED <<fetched, io, jobs, run, parallelCount, crashed>>

\* await mediaDownloader(...) throws: the catch around the loop
DrainRejected ==
  /\ pc = "draining" /\ ~crashed
  /\ d.promise = "rejected"
  /\ pc' = "failed"
  /\ sel' = [Emit(sel, "downloadError", sel.i) EXCEPT !.errors = @ + 1]
  /\ UNCHANGED <<db, disk, fetched, io, jobs, run, remote, history, L, parallelCount, crashed,
                 listCalls, dbAtStart, mediaList, d>>

Alive == pc \in {"draining", "finished", "failed"} /\ ~crashed

Frame ==
  UNCHANGED <<fetched, io, jobs, run, remote, history, L, sel, parallelCount, pc, listCalls,
              dbAtStart, mediaList>>

\* request.on('response') with statusCode 200
Response200(u) ==
  /\ Alive /\ d.phase[u] = "requesting"
  /\ d' = [d EXCEPT !.phase[u] = "streaming"]
  /\ UNCHANGED <<db, disk, crashed>>
  /\ Frame

\* request.on('response') with statusCode !== 200
ResponseNot200Handler(s, u) ==
  LET s1 == Outcome([s EXCEPT !.phase[u] = "over"], u, "non-200")
  IN downloader(Advance(Remove(FileEnd([s1 EXCEPT !.timer[u] = FALSE], u), u), u),
                s.cur[u] + 1)

ResponseNot200(u) ==
  /\ Alive /\ d.phase[u] = "requesting"
  /\ Commit(ResponseNot200Handler(d, u))
  /\ Frame

\* response.on('end'): clearTimeout, file.end(cb), setTimeout(..., 100)
ResponseEndHandler(s, u) ==
  Outcome(FileEnd([s EXCEPT !.phase[u] = "ended", !.timer[u] = FALSE, !.post[u] = TRUE], u),
          u, "success")

ResponseEnd(u) ==
  /\ Alive /\ d.phase[u] = "streaming"
  /\ d' = ResponseEndHandler(d, u)
  /\ UNCHANGED <<db, disk, crashed>>
  /\ Frame

\* the callback of setTimeout(..., 100) after 'end'
PostTimerHandler(s, u) ==
  LET s1 == Advance(Remove([s EXCEPT !.post[u] = FALSE,
                                     !.phase[u] = IF @ = "ended" THEN "over" ELSE @], u),
                    u)
      nextItem == s.cur[u] + 1
  IN IF nextItem > s.total THEN Resolve(s1) ELSE downloader(s1, nextItem)

PostTimer(u) ==
  /\ Alive /\ d.post[u]
  /\ Commit(PostTimerHandler(d, u))
  /\ Frame

\* the callback of downloadTimeout, were it to queue the item again
TimeoutHandlerRequeue(s, u, emits, unlinkThrows) ==
  LET s1 == FileEnd(Destroy(Outcome([s EXCEPT !.timer[u] = FALSE], u, "timeout"),
                            u, emits), u)
      again == CHOOSE m \in {s.taken[i] : i \in 1..Len(s.taken)} : m.url = u
  IN IF u \in s1.disk /\ unlinkThrows
     THEN [s1 EXCEPT !.threw = TRUE]
     ELSE downloader(Advance(Remove(Unlink([s1 EXCEPT !.arr = Append(@, again)], u), u), u),
                     s.cur[u] + 1)

\* the callback of downloadTimeout
TimeoutHandler(s, u, emits, unlinkThrows) ==
  LET s1 == FileEnd(Destroy(Outcome([s EXCEPT !.timer[u] = FALSE], u, "timeout"),
                            u, emits), u)
  IN IF u \in s1.disk /\ unlinkThrows
     THEN [s1 EXCEPT !.threw = TRUE]
     ELSE downloader(Advance(Remove(Unlink(s1, u), u), u), s.cur[u] + 1)

Timeout(u) ==
  /\ Alive /\ d.timer[u]
  /\ \E emits \in BOOLEAN, unlinkThrows \in BOOLEAN :
       Commit(TimeoutHandler(d, u, emits, unlinkThrows))
  /\ Frame

\* request.on('error')
RequestErrorHandler(s, u, unlinkThrows) ==
  LET s1 == FileEnd(Outcome([s EXCEPT !.timer[u] = FALSE, !.reqErr[u] = FALSE,
                                      !.phase[u] = "over"], u, "request-error"), u)
  IN IF u \in s1.disk /\ unlinkThrows
     THEN [s1 EXCEPT !.threw = TRUE]
     ELSE downloader(Advance(Remove(Unlink(s1, u), u), u), s.cur[u] + 1)

RequestError(u) ==
  /\ Alive
  /\ d.reqErr[u] \/ d.phase[u] \in {"requesting", "streaming"}
  /\ \E unlinkThrows \in BOOLEAN : Commit(RequestErrorHandler(d, u, unlinkThrows))
  /\ Frame

\* file.on('error'): the stream fails while it is written (open), or while
\* the flush of file.end(cb) is outstanding during the delay after 'end'.
\* Before the response the stream has nothing to write: its error is then
\* the failure to open the file, which creates nothing.  The handler itself
\* deletes nothing.
FileErrorHandler(s, u, emits) ==
  LET s0 == Outcome([s EXCEPT !.file[u] = "errored", !.timer[u] = FALSE,
                              !.disk = IF s.phase[u] = "requesting"
                                       THEN (@ \ {u}) \cup ({u} \cap s.before)
                                       ELSE @],
                    u, "file-error")
      s1 == IF s.phase[u] \in {"requesting", "streaming"} THEN Destroy(s0, u, emits)
            ELSE s0
  IN downloader(Advance(Remove(s1, u), u), s.cur[u] + 1)

FileError(u) ==
  /\ Alive
  /\ d.file[u] = "open" \/ (d.file[u] = "ending" /\ d.post[u])
  /\ \E emits \in BOOLEAN : Commit(FileErrorHandler(d, u, emits))
  /\ Frame

\* the callback of file.end(cb), were the exception of utimesSync to leave it
FileFinishHandlerPropagates(s, u, created, utimesThrows) ==
  LET s1 == [s EXCEPT !.file[u] = "finished"]
  IN IF ~created THEN [s1 EXCEPT !.mtime[u] = "kept"]
     ELSE IF utimesThrows \/ u \notin s.disk
     THEN [s1 EXCEPT !.mtime[u] = "failed", !.threw = TRUE]
     ELSE [s1 EXCEPT !.mtime[u] = "created"]

\* the callback of file.end(cb) in the 'end' branch: the stream has flushed;
\* if (CREATED_AT) fs.utimesSync(filePath, timestamp, timestamp) inside
\* try/catch, whose catch only logs
FileFinishHandler(s, u, created, utimesThrows) ==
  LET s1 == [s EXCEPT !.file[u] = "finished"]
  IN IF ~created THEN [s1 EXCEPT !.mtime[u] = "kept"]
     ELSE IF utimesThrows \/ u \notin s.disk
     THEN [s1 EXCEPT !.mtime[u] = "failed"]
     ELSE [s1 EXCEPT !.mtime[u] = "created"]

\* the stream of an item whose response ended has flushed, before or after
\* the 100 ms timer; created tells whether the item has a creation time
FileFinish(u) ==
  /\ Alive
  /\ d.file[u] = "ending"
  /\ \E i \in 1..Len(d.outcomes[u]) : d.outcomes[u][i] = "success"
  /\ \E created \in BOOLEAN, utimesThrows \in BOOLEAN :
       Commit(FileFinishHandler(d, u, created, utimesThrows))
  /\ Frame

\* the 'end' branch of item u ran in this run
Succeeded(u) == \E i \in 1..Len(d.outcomes[u]) : d.outcomes[u][i] = "success"

\* the process is started again (after it ended, crashed or was killed)
Restart ==
  /\ run < MaxRuns
  /\ pc # "boot"
  /\ run' = run + 1
  /\ fetched' = fetched \cup {u \in Urls : Succeeded(u) /\ d.removes[u] > 0}
  /\ pc' = "boot"
  /\ crashed' = FALSE
  /\ parallelCount' = 1
  /\ listCalls' = 0
  /\ dbAtStart' = [exists |-> FALSE, media |-> <<>>]
  /\ mediaList' = <<>>
  /\ L' = NoListing
  /\ sel' = Selection(sel.n)
  /\ d' = NoDrain
  /\ UNCHANGED <<db, disk, remote, history, io, jobs>>

Next ==
  \/ SelectFromAvailableGroups
  \/ ProcessGroupMediaResume
  \/ ProcessGroupMediaList
  \/ ListingAnswer
  \/ MediaListBuilt
  \/ MediaListFailed
  \/ DrainResolved
  \/ DrainRejected
  \/ \E u \in Urls : Response200(u)
  \/ \E u \in Urls : ResponseNot200(u)
  \/ \E u \in Urls : ResponseEnd(u)
  \/ \E u \in Urls : PostTimer(u)
  \/ \E u \in Urls : Timeout(u)
  \/ \E u \in Urls : RequestError(u)
  \/ \E u \in Urls : FileError(u)
  \/ \E u \in Urls : FileFinish(u)

\* one run of the process
Init == InitK(MaxItems, 1)
Spec == Init /\ [][Next]_vars

\* the process with restarts
InitRuns == InitK(MaxListed, 1)
NextRuns == Next \/ Restart
SpecRuns == InitRuns /\ [][NextRuns]_vars

\* several selected groups, processed one after the other
InitGroups == InitK(MaxGroupItems, MaxGroups)
SpecGroups == InitGroups /\ [][Next]_vars

\* the listing alone, over histories of several pages
InitList ==
  /\ history \in Histories
  /\ remote = ImagesOf(Flatten(history))
  /\ db \in {[exists |-> FALSE, media |-> <<>>], [exists |-> TRUE, media |-> <<>>]}
  /\ disk = {}
  /\ fetched = {}
  /\ run = 1
  /\ parallelCount = 1
  /\ pc = "boot"
  /\ crashed = FALSE
  /\ listCalls = 0
  /\ dbAtStart = [exists |-> FALSE, media |-> <<>>]
  /\ mediaList = <<>>
  /\ L = NoListing
  /\ sel = Selection(1)
  /\ io = NoCall
  /\ jobs = <<>>
  /\ d = NoDrain

NextList ==
  \/ SelectFromAvailableGroups
  \/ ProcessGroupMediaList
  \/ ListingAnswer
  \/ MediaListBuilt
  \/ MediaListFailed

SpecList == InitList /\ [][NextList]_vars

\* ---------------------------------------------- the start-up functions
\* answers to GET groups: a page of groups, an empty page, 401 or 500
GroupAnswers ==
  UNION { [1..n -> { [status |-> 200, groups |-> <<>>],
                     [status |-> 200, groups |-> <<"g">>],
                     [status |-> 401, groups |-> <<>>],
                     [status |-> 500, groups |-> <<>>] }] : n \in 0..MaxGroupPages }

TokenInputs ==
  [argToken : {"", "A"}, interactive : BOOLEAN, stored : {"", "S"},
   useCached : BOOLEAN, typed : {"T"}]

ParallelArgs ==
  {[given |-> FALSE, nan |-> FALSE, value |-> 0], [given |-> TRUE, nan |-> TRUE, value |-> 0]}
  \cup {[given |-> TRUE, nan |-> FALSE, value |-> v] : v \in -1..MaxParallelArg}

Rest ==
  UNCHANGED <<db, disk, fetched, run, remote, history, L, sel, jobs, parallelCount, pc,
              crashed, listCalls, dbAtStart, mediaList, d>>

CallSelectGroups ==
  /\ io.fn = "none"
  /\ \E answers \in GroupAnswers :
       io' = [fn |-> "selectFromAvailableGroups", in |-> answers,
              out |-> selectGroupsFrom(answers)]
  /\ Rest

CallGetAuthToken ==
  /\ io.fn = "none"
  /\ \E in \in TokenInputs : io' = [fn |-> "getAuthToken", in |-> in, out |-> getAuthToken(in)]
  /\ Rest

CallGetParallelCount ==
  /\ io.fn = "none"
  /\ \E arg \in ParallelArgs :
       io' = [fn |-> "getParallelCount", in |-> arg, out |-> getParallelCount(arg)]
  /\ Rest

\* n times the character c
Rep(c, n) == [i \in 1..n |-> c]

\* urls of the two media hosts: an optional size prefix or directory, a
\* 32-character id or a short one, an optional suffix
FileUrls ==
  {<<"h", "t", "t", "p", "s", ":", "/", "/">> \o host \o <<"/">> \o pre \o body \o suf :
     host \in {ImageHost, <<"v", ".", "g", "r", "o", "u", "p", "m", "e", ".", "c", "o", "m">>},
     pre \in {<<>>, <<"9", "x", "9", ".", "j", "p", "e", "g", ".">>, <<"8", "x", "8", ".", "j", "p", "e", "g", ".">>, <<"d", "/">>, <<"e", "/">>},
     body \in {Rep("a", HashLen), Rep("b", HashLen), <<"a", "b">>},
     suf \in {<<>>, <<".", "l", "a", "r", "g", "e">>, <<".", "m", "p", "4">>}}

UserNames == {<<"a", "l">>, <<"a", " ", "b">>}

\* the characters sender names are made of
NameChars == {"a", " ", "<", ">", ":", "\"", "/", "\\", "|", "?", "*", "&", "]"}

\* sender names, the missing name being the empty one
Names == UNION {[1..n -> NameChars] : n \in 0..MaxNameLen}

CallRenameFile ==
  /\ io.fn = "none"
  /\ \E fileUrl \in FileUrls, userName \in UserNames :
       io' = [fn |-> "renameFile", in |-> [fileUrl |-> fileUrl, userName |-> userName],
              out |-> renameFile(fileUrl, userName)]
  /\ Rest

CallUserOf ==
  /\ io.fn = "none"
  /\ \E name \in Names : io' = [fn |-> "userOf", in |-> name, out |-> userOf(name)]
  /\ Rest

\* the calls of getOrganizedFilePath tried: now and later number its two
\* readings of the clock
OrganizerInputs ==
  {[options |-> [baseDir |-> <<"m", "e", "d", "i", "a">>, groupId |-> <<"g", "1">>, method |-> method],
    mediaItem |-> [url |-> url, user |-> user, created |-> created],
    now |-> i, later |-> j, exists |-> exists] :
     method \in {"flat", "date", "user"}, url \in FileUrls, user \in UserNames \cup {<<>>},
     created \in {NoDate, DateLine[1], DateLine[4]},
     i \in 1..Len(DateLine), j \in 1..Len(DateLine), exists \in BOOLEAN}

\* the directories that exist before a call
DirsOf(in) ==
  IF in.exists THEN {outputDirOf(in.options, in.mediaItem, DateLine[in.now])} ELSE {}

CallGetOrganizedFilePath ==
  /\ io.fn = "none"
  /\ \E in \in OrganizerInputs :
       /\ in.now <= in.later
       /\ io' = [fn |-> "getOrganizedFilePath", in |-> in,
                 out |-> getOrganizedFilePath(in.options, in.mediaItem, DateLine[in.now],
                                              DateLine[in.later], DirsOf(in))]
  /\ Rest

NextTools ==
  \/ CallSelectGroups
  \/ CallGetAuthToken
  \/ CallGetParallelCount
  \/ CallRenameFile
  \/ CallUserOf
  \/ CallGetOrganizedFilePath

InitTools == InitK(0, 1)
SpecTools == InitTools /\ [][NextTools]_vars

\* ------------------------------------------------------------ GUI server
\* A job is a call of processGroups for the group: the stage of its
\* processGroupMedia and the closure of its mediaDownloader call.
StageOf(s) ==
  IF s.promise = "resolved" THEN "done"
  ELSE IF s.promise = "rejected" THEN "failed"
  ELSE "draining"

Job(s) == [stage |-> StageOf(s), d |-> s]

\* the closure of job j, which sees the store and the disk as they are
View(j) == [jobs[j].d EXCEPT !.db = db, !.disk = disk]

\* a handler of job j has run
JobCommit(j, s) ==
  /\ jobs' = [jobs EXCEPT ![j] = Job([s EXCEPT !.threw = FALSE])]
  /\ db' = s.db
  /\ disk' = s.disk
  /\ crashed' = s.threw

GuiFrame ==
  UNCHANGED <<fetched, run, remote, history, L, sel, io, parallelCount, pc, listCalls,
              dbAtStart, mediaList, d>>

\* app.post('/api/download'): db.createGroup(id), then processGroups(token,
\* groupIds) without await, which runs up to its first pending await: the
\* fetch of mediaListBuilder, or the promise of mediaDownloader when the
\* group has a persisted queue
PostDownload ==
  /\ ~crashed
  /\ Len(jobs) < MaxPosts
  /\ LET g == createGroup(db)
     IN IF HasPending(g)
        THEN LET s == mediaDownloader(g.media, g, disk)
             IN /\ jobs' = Append(jobs, Job(s))
                /\ db' = s.db
                /\ disk' = s.disk
        ELSE /\ jobs' = Append(jobs, [stage |-> "listing", d |-> NoDrain])
             /\ db' = g
             /\ disk' = disk
  /\ UNCHANGED crashed
  /\ GuiFrame

\* await mediaListBuilder(authToken, groupId) of job j ends: it returns the
\* images of the group, and mediaDownloader is called with them, or throws
JobListed(j) ==
  /\ ~crashed
  /\ jobs[j].stage = "listing"
  /\ \E returns \in BOOLEAN :
       IF returns
       THEN LET s == mediaDownloader(remote, db, disk)
            IN /\ jobs' = [jobs EXCEPT ![j] = Job(s)]
               /\ db' = s.db
               /\ disk' = s.disk
       ELSE /\ jobs' = [jobs EXCEPT ![j].stage = "failed"]
            /\ UNCHANGED <<db, disk>>
  /\ UNCHANGED crashed
  /\ GuiFrame

\* the events of the request of item u of job j
JobResponse200(j, u) ==
  /\ ~crashed /\ jobs[j].d.phase[u] = "requesting"
  /\ jobs' = [jobs EXCEPT ![j].d.phase[u] = "streaming"]
  /\ UNCHANGED <<db, disk, crashed>>
  /\ GuiFrame

JobResponseNot200(j, u) ==
  /\ ~crashed /\ jobs[j].d.phase[u] = "requesting"
  /\ JobCommit(j, ResponseNot200Handler(View(j), u))
  /\ GuiFrame

JobResponseEnd(j, u) ==
  /\ ~crashed /\ jobs[j].d.phase[u] = "streaming"
  /\ JobCommit(j, ResponseEndHandler(View(j), u))
  /\ GuiFrame

JobPostTimer(j, u) ==
  /\ ~crashed /\ jobs[j].d.post[u]
  /\ JobCommit(j, PostTimerHandler(View(j), u))
  /\ GuiFrame

NextGui ==
  \/ PostDownload
  \/ \E j \in 1..Len(jobs) : JobListed(j)
  \/ \E j \in 1..Len(jobs), u \in Urls : JobResponse200(j, u)
  \/ \E j \in 1..Len(jobs), u \in Urls : JobResponseNot200(j, u)
  \/ \E j \in 1..Len(jobs), u \in Urls : JobResponseEnd(j, u)
  \/ \E j \in 1..Len(jobs), u \in Urls : JobPostTimer(j, u)

InitGui == InitK(MaxListed, 1)
SpecGui == InitGui /\ [][NextGui]_vars

\* ---------------------------------------------------------------- claims
\* the request of item u is open
InFlight(u) == d.phase[u] \in {"requesting", "streaming"}

\* item u has an open request, an armed timeout or a pending 100 ms timer
Busy(u) == InFlight(u) \/ d.timer[u] \/ d.post[u]

InFlightCount == Cardinality({u \in Urls : InFlight(u)})

\* the promise is resolved and no event of any item is outstanding
DrainEnded ==
  /\ ~crashed
  /\ d.promise = "resolved"
  /\ \A u \in Urls : ~Busy(u) /\ ~d.reqErr[u]

MediaUrls(list) == {list[i].url : i \in 1..Len(list)}

\* C1: when the drain of the K items of mediaList.media has ended, every
\* item has exactly one terminal outcome and the persisted queue is empty.
C1_OneOutcomePerItem ==
  DrainEnded =>
    /\ \A u \in MediaUrls(mediaList) : Len(d.outcomes[u]) = 1
    /\ db.media = <<>>

\* C2: the promise of mediaDownloader resolves only into a state where no
\* item remains to be started and no item has an open request, an armed
\* timeout or a pending post-completion timer.
C2_ResolvesOnlyWhenIdle ==
  [][(d.promise = "pending" /\ d'.promise = "resolved")
       => (d'.arr = <<>> /\ \A u \in Urls : ~Busy(u)')]_vars

\* C3: the number of items whose request is open never exceeds the
\* configured concurrency.
C3_InFlightWithinConcurrency == InFlightCount <= parallelCount

\* C4: while the drain is pending, it never happens that items remain
\* unstarted, fewer than parallelCount requests are open and no start is
\* pending (no 100 ms timer, no queued request error).
C4_PoolNeverIdles ==
  ~ /\ pc = "draining" /\ ~crashed /\ d.promise = "pending"
    /\ Len(d.arr) > 0
    /\ InFlightCount < parallelCount
    /\ \A u \in Urls : ~d.post[u] /\ ~d.reqErr[u]

\* C5: an item that entered a terminal branch and has no timer of that
\* branch pending has had removeMediaItem called for its url, and
\* removeMediaItem is never called for an item whose request is still open.
C5_TerminalBranchRemoves ==
  \A u \in Urls :
    /\ (d.outcomes[u] # <<>> /\ ~d.post[u]) => d.removes[u] >= 1
    /\ d.removes[u] >= 1 => ~InFlight(u)

\* C6: within one invocation the items shifted so far followed by the items
\* still in the working copy are the media list (nothing is taken twice or
\* put back), and no url is requested more than once.
C6_AtMostOneAttempt ==
  /\ d.taken \o d.arr = mediaList
  /\ \A u \in Urls : d.requests[u] <= 1

\* C6 witness: two continuation chains are active and the list is used up
C6_Witness ==
  /\ InFlightCount >= 2
  /\ d.arr = <<>>
  /\ Len(d.taken) = MaxItems

\* C7: while the drain is pending, every item of the media list that has
\* no terminal outcome yet is in the persisted queue of the group.
C7_PersistedQueueHoldsPending ==
  (pc = "draining" /\ d.promise = "pending") =>
    \A u \in MediaUrls(mediaList) :
      d.outcomes[u] = <<>> => u \in MediaUrls(db.media)

\* C8: when db.getGroup returned a non-empty media list, mediaListBuilder
\* is not called, the drain gets exactly the persisted items and requests
\* only their urls; mediaListBuilder is called only for an absent group or
\* an empty media list.
C8_ResumeSkipsListing ==
  pc \notin {"boot", "ready"} =>
    /\ Len(dbAtStart.media) > 0 =>
         /\ listCalls = 0
         /\ mediaList = dbAtStart.media
         /\ \A u \in Urls : d.requests[u] > 0 => u \in MediaUrls(dbAtStart.media)
    /\ listCalls > 0 => (~dbAtStart.exists \/ dbAtStart.media = <<>>)

\* C8 witness: a resumed queue was drained and an item of it was downloaded
C8_Witness ==
  /\ pc = "finished"
  /\ Len(dbAtStart.media) > 1
  /\ listCalls = 0
  /\ \E u \in Urls : Succeeded(u) /\ d.removes[u] = 1

\* C9: a url whose download succeeded in an earlier run is not requested
\* by a later run.
C9_NoRefetchAcrossRuns == \A u \in fetched : d.requests[u] = 0

\* C10: no failure of an item makes the drain reject or throw.
C10_NoItemFailureAbortsDrain == ~crashed /\ d.promise # "rejected"

\* C11: a resolved drain of K items reports a tally {successCount,
\* failureCount} whose sum is K.
C11_DrainReportsTally ==
  d.promise = "resolved" =>
    /\ d.value # "undefined"
    /\ d.value.successCount + d.value.failureCount = d.total

\* C18: an item whose url fails the test causes no request and no file, is
\* classified as skipped exactly once and removed from the queue, and the
\* drain goes on: the next item is taken, or nothing is left and the
\* promise is settled.
C18_InvalidUrlSkipped ==
  \A i \in 1..Len(d.taken) :
    ~d.taken[i].ok =>
      LET u == d.taken[i].url IN
        /\ d.requests[u] = 0
        /\ d.file[u] = "none" /\ d.phase[u] = "none" /\ u \notin (d.disk \ d.before)
        /\ d.outcomes[u] = <<"invalid-url">>
        /\ d.removes[u] = 1 /\ u \notin MediaUrls(db.media)
        /\ i < Len(d.taken) \/ (d.arr = <<>> /\ d.promise # "pending")

\* C18 witness: an invalid item was skipped and the item after it is being
\* downloaded
C18_Witness ==
  \E i \in 1..Len(d.taken) - 1 :
    /\ ~d.taken[i].ok
    /\ d.outcomes[d.taken[i].url] = <<"invalid-url">>
    /\ d.taken[i + 1].ok
    /\ InFlight(d.taken[i + 1].url)

\* C19: an item whose download timed out has the single outcome timeout,
\* its request is over and its file is closed and deleted: no later event
\* of the aborted request adds an outcome.
C19_TimeoutIsFinal ==
  ~crashed =>
    \A u \in Urls :
      (\E i \in 1..Len(d.outcomes[u]) : d.outcomes[u][i] = "timeout") =>
        /\ d.outcomes[u] = <<"timeout">>
        /\ d.phase[u] = "over"
        /\ d.file[u] # "open"
        /\ u \notin d.disk

\* C20: after the handler of a request error or of a write-stream error
\* ran for an item, no file of that item exists.
C20_ErrorHandlersLeaveNoFile ==
  ~crashed =>
    \A u \in Urls :
      (\E i \in 1..Len(d.outcomes[u]) :
          d.outcomes[u][i] \in {"request-error", "file-error"})
        => u \notin d.disk

\* the listing returned and every request of it was answered 200
ListedAll200 ==
  /\ L.state = "returned"
  /\ \A i \in 1..Len(L.log) : L.log[i].status = 200

\* the page requests answered so far
PageRequests == SelectSeq(L.log, LAMBDA e : e.ep = "page")

\* the pages served to the page requests answered 200, in order
ServedPages ==
  LET served == SelectSeq(PageRequests, LAMBDA e : e.status = 200)
  IN [i \in 1..Len(served) |-> ServerPage(history, served[i].before)]

\* C12: a listing whose requests are all answered 200 walks every page of
\* the history up to the empty page and returns exactly the urls of the
\* attachments of type image, each once, in the order of their first
\* occurrence (page, message, attachment); whenever the listing returns, it
\* returns that list for the pages it was served.
C12_ListsDistinctImagesInOrder ==
  L.state = "returned" =>
    /\ L.allMedia = ImagesOf(Flatten(ServedPages))
    /\ ListedAll200 => L.pages = Len(history)

\* C12 witness: two pages with a repeated url and a video were listed
C12_Witness ==
  /\ ListedAll200
  /\ Len(history) = 2
  /\ Len(L.allMedia) = 2
  /\ Len(ImagesOf(Flatten(history))) < Cardinality(
        UNION {{<<m, a>> : a \in 1..Len(Flatten(history)[m].atts)} :
                 m \in 1..Len(Flatten(history))})

\* C13: whatever the listing holds when a page request is in flight, the
\* answer 304 ends it without an error and without another request, with
\* the list that the answer 200 with zero messages gives.
C13_NotModifiedEndsListing ==
  (L.state = "fetching" /\ L.stage = "page") =>
    LET a == ListAnswer(L, 304, history)
        b == ListAnswer(L, 200, <<>>)
    IN /\ a.state = "returned" /\ a.error = "none"
       /\ b.state = "returned"
       /\ a.allMedia = b.allMedia
       /\ Len(a.log) = Len(L.log) + 1

\* C13 witness: the second page request was answered 304 and the listing
\* returned the images of the first page
C13_Witness ==
  /\ L.state = "returned"
  /\ L.pages = 1 /\ Len(history) = 2
  /\ L.log[Len(L.log)].status = 304
  /\ Len(L.allMedia) > 0

\* C14: when the history is a page of 100 messages and a page of 40 and
\* every request is answered 200, the listing returns after two page
\* requests.
C14_ShortPageEndsListing ==
  (history = FullThenShort /\ ListedAll200) => Len(PageRequests) = 2

\* C15: whatever the listing holds when a page request is first sent, the
\* answers 429 then 200 leave it as the answer 200 alone does (the log and
\* the attempt counter of apiRequest apart).
C15_RetryIsInvisible ==
  (L.state = "fetching" /\ L.stage = "page" /\ L.attempt = 0) =>
    LET a == ListAnswer(ListAnswer(L, 429, history), 200, history)
        b == ListAnswer(L, 200, history)
        Same(x, y) == [x EXCEPT !.log = <<>>, !.waits = <<>>, !.attempt = 0]
                        = [y EXCEPT !.log = <<>>, !.waits = <<>>, !.attempt = 0]
    IN Same(a, b) /\ a.error = "none"

\* C15 witness: a page request was answered 429, its retry 200, and the
\* listing returned the images of the history
C15_Witness ==
  /\ L.state = "returned"
  /\ Len(L.allMedia) > 0
  /\ L.allMedia = ImagesOf(Flatten(history))
  /\ \E i \in 1..Len(L.log) - 1 :
       /\ L.log[i].ep = "page" /\ L.log[i].status = 429
       /\ L.log[i + 1] = [L.log[i] EXCEPT !.status = 200]
       /\ \A j \in 1..Len(L.log) : j # i => L.log[j].status = 200

\* C16: a request of the listing answered 401 is its last request and the
\* listing fails with the authentication error; a listing that failed on
\* another status fails with the error that names the status.
C16_StatusErrors ==
  /\ \A i \in 1..Len(L.log) :
       L.log[i].status = 401 => (i = Len(L.log) /\ L.state = "threw")
  /\ L.state = "threw" =>
       LET last == L.log[Len(L.log)]
       IN /\ last.status = 401 => L.error = "auth"
          /\ last.status \notin {200, 304, 401} =>
               (L.error = "status" /\ L.errStatus = last.status)

\* C17: once mediaListBuilder failed for a group, the run has ended with
\* one reported error and mediaDownloader was invoked for no group but
\* those before it in the selection.
C17_ListingFailureEndsRun ==
  sel.failedAt > 0 =>
    /\ pc = "failed"
    /\ sel.errors = 1
    /\ sel.i = sel.failedAt
    /\ \A g \in sel.invoked : g < sel.failedAt

\* C17 witness: the listing of the first of several groups failed
C17_Witness ==
  /\ sel.failedAt = 1
  /\ sel.n > 1
  /\ pc = "failed"
  /\ L.state = "threw"

\* C17 witness: the listing failed for a group after a group was drained
C17_WitnessLater ==
  /\ sel.failedAt > 1
  /\ 1 \in sel.invoked
  /\ pc = "failed"

\* C21: removing a url from a queue that does not hold it, from an empty
\* queue or from an absent group leaves the store as it is, a second
\* removal of a url changes nothing, and a url that the drain removed is
\* not in the queue.
C21_RemovalIsIdempotent ==
  \A u \in Urls :
    LET once == removeMediaItem(db, u)
    IN /\ removeMediaItem(once, u) = once
       /\ u \notin MediaUrls(db.media) => once = db
       /\ u \notin MediaUrls(once.media)
       /\ (~crashed /\ d.removes[u] >= 1) => u \notin MediaUrls(db.media)

\* C21 witness: the timeout path and the error path both removed a url
\* while another item was still queued
C21_Witness ==
  /\ ~crashed
  /\ db.exists /\ Len(db.media) > 0
  /\ \E u \in Urls : d.removes[u] = 2 /\ d.outcomes[u] = <<"timeout", "request-error">>

\* the requests of the listing that were sent with the same parameters
SameRequest(e) == {i \in 1..Len(L.log) : L.log[i].ep = e.ep /\ L.log[i].before = e.before}

\* C22: every wait of apiRequest follows a 429, lasts 1000 ms times 2 to
\* the number of the attempt and so doubles from one retry to the next; a
\* request is sent at most 3 times, and what follows a 429 that is retried
\* is the same request; the drain requests no url twice.
C22_BackoffOnListingOnly ==
  /\ \A i \in 1..Len(L.waits) :
       /\ L.waits[i].attempt \in 1..2
       /\ L.waits[i].delay = 1000 * Pow2(L.waits[i].attempt)
       /\ (i > 1 /\ L.waits[i].attempt > 1) => L.waits[i].delay = 2 * L.waits[i - 1].delay
  /\ Len(L.waits) <= Cardinality({i \in 1..Len(L.log) : L.log[i].status = 429})
  /\ \A i \in 1..Len(L.log) :
       /\ Cardinality(SameRequest(L.log[i])) <= 3
       /\ (L.log[i].status = 429 /\ i < Len(L.log)) =>
            (L.log[i + 1].ep = L.log[i].ep /\ L.log[i + 1].before = L.log[i].before)
  /\ \A u \in Urls : d.requests[u] <= 1

\* C22 witness: a page request was answered 429 twice and 200 the third
\* time, after waits of 2000 and 4000 ms
C22_Witness ==
  /\ L.state = "returned"
  /\ \E i \in 1..Len(L.log) - 2 :
       /\ L.log[i].ep = "page" /\ L.log[i].status = 429
       /\ L.log[i + 1].status = 429 /\ L.log[i + 2].status = 200
  /\ \E i \in 1..Len(L.waits) - 1 :
       L.waits[i].delay = 2000 /\ L.waits[i + 1].delay = 4000

\* the progress events of a kind about a subject (a group or a url)
EventsOf(names, arg) ==
  {i \in 1..Len(sel.events) : sel.events[i].name \in names /\ sel.events[i].arg = arg}

\* C23: when the run has processed its groups, the events of the last
\* group are a group-started event, then for every item an item-started
\* event and after it exactly one item-completed event, then a
\* group-completed event.
C23_ProgressEvents ==
  (pc = "finished" /\ ~crashed) =>
    \E gs \in EventsOf({"groupProcessing"}, sel.i) :
      \E gc \in EventsOf({"groupCompleted", "downloadCompleted"}, sel.n) :
        /\ gs < gc
        /\ \A u \in MediaUrls(mediaList) :
             /\ Cardinality(EventsOf({"mediaDownloaded", "itemCompleted"}, u)) = 1
             /\ \E is \in EventsOf({"mediaStarted", "itemStarted"}, u) :
                  \E ic \in EventsOf({"mediaDownloaded", "itemCompleted"}, u) :
                    gs < is /\ is < ic /\ ic < gc

\* C24: when a request of fetchAvailableGroups was answered 401, the
\* operation fails with the authentication error and hands no group list
\* on to the selection.
C24_UnauthorizedFailsSelection ==
  (io.fn = "selectFromAvailableGroups"
     /\ \E p \in 1..Len(io.in) :
          /\ io.in[p].status = 401
          /\ \A q \in 1..p - 1 : io.in[q].status = 200 /\ Len(io.in[q].groups) > 0)
    => (io.out.threw = "auth" /\ io.out.groups = <<>>)

\* C25: a --token argument is the token returned and stored; without it
\* and non-interactive, the stored token is returned and the record is
\* unchanged, and with no stored token the run exits and the record is
\* unchanged; the stored token is used only when no argument is given.
C25_TokenPrecedence ==
  io.fn = "getAuthToken" =>
    /\ io.in.argToken # "" =>
         (io.out.token = io.in.argToken /\ io.out.stored = io.in.argToken /\ ~io.out.exit)
    /\ (io.in.argToken = "" /\ ~io.in.interactive /\ io.in.stored # "") =>
         (io.out.token = io.in.stored /\ io.out.stored = io.in.stored /\ ~io.out.exit)
    /\ (io.in.argToken = "" /\ ~io.in.interactive /\ io.in.stored = "") =>
         (io.out.exit /\ io.out.stored = io.in.stored)
    /\ (~io.out.exit /\ io.out.token = io.in.stored /\ io.in.stored # "") =>
         io.in.argToken = ""

\* C25 witness: a --token argument given while another token is stored
C25_Witness ==
  /\ io.fn = "getAuthToken"
  /\ io.in.argToken = "A" /\ io.in.stored = "S"
  /\ io.out.token = "A" /\ io.out.stored = "A"

\* C26: the concurrency that getParallelCount returns is in 1..10, and is
\* 3 when --parallel is not given.
C26_ParallelInRange ==
  io.fn = "getParallelCount" =>
    /\ io.out \in 1..10
    /\ ~io.in.given => io.out = 3

\* t ends s
EndsWith(s, t) == OccursAt(s, t, Len(s) - Len(t) + 1)

\* C28: two distinct urls have different hashes unless one is 'unknown',
\* and give one user two different file names.
C28_DistinctUrlsDistinctNames ==
  io.fn = "renameFile" =>
    \A other \in FileUrls \ {io.in.fileUrl} :
      /\ (hashOf(other) = hashOf(io.in.fileUrl) => hashOf(other) = Unknown)
      /\ renameFile(other, io.in.userName) # io.out

\* the extensions of a url's class that occur in it
PresentTypes(fileUrl) ==
  {e \in (IF Hostname(fileUrl) = ImageHost THEN IMAGE_FILE_TYPES ELSE VIDEO_FILE_TYPES) :
     Occurrences(fileUrl, <<".">> \o e) # {}}

\* C29: when no extension of the url's class occurs in it the file name
\* ends with .jpg for the image host and .mp4 for any other host;
\* otherwise it ends with an extension of the class that occurs in the url.
C29_ExtensionChoice ==
  io.fn = "renameFile" =>
    IF PresentTypes(io.in.fileUrl) = {}
    THEN EndsWith(io.out, IF Hostname(io.in.fileUrl) = ImageHost THEN <<".", "j", "p", "g">> ELSE <<".", "m", "p", "4">>)
    ELSE \E e \in PresentTypes(io.in.fileUrl) : EndsWith(io.out, <<".">> \o e)

\* C29 witness: the url of a video host that shows no extension at all is
\* named .mp4
C29_Witness ==
  /\ io.fn = "renameFile"
  /\ Hostname(io.in.fileUrl) # ImageHost
  /\ \A e \in IMAGE_FILE_TYPES \cup VIDEO_FILE_TYPES :
       Occurrences(io.in.fileUrl, <<".">> \o e) = {}
  /\ EndsWith(io.out, <<".", "m", "p", "4">>)

\* the characters a user name is to be free of
ReplacedCharacters == {"<", ">", ":", "\"", "/", "\\", "|", "?", "*", "&"}

\* C30: the user of a message is its name trimmed with each of
\* < > : " / \ | ? * & replaced by an underscore, so none of them is left
\* in it; a message without a name has the user 'UnknownUser'.
C30_SanitizedName ==
  io.fn = "userOf" =>
    IF io.in = <<>> THEN io.out = UnknownUser
    ELSE /\ io.out = ReplaceAll(Trim(io.in), ReplacedCharacters, "_")
         /\ \A i \in 1..Len(io.out) : io.out[i] \notin ReplacedCharacters

\* C27: the path getOrganizedFilePath returns for given options and item
\* is the same at whatever time it is called and whatever directories
\* exist, and the call leaves the directories as they were.
C27_PathIsPure ==
  io.fn = "getOrganizedFilePath" =>
    /\ \A i \in 1..Len(DateLine), j \in 1..Len(DateLine), dirs \in {{}, DirsOf(io.in)} :
         i <= j =>
           getOrganizedFilePath(io.in.options, io.in.mediaItem, DateLine[i], DateLine[j],
                                dirs).path = io.out.path
    /\ io.out.dirs = DirsOf(io.in)

\* C31: after a non-empty page the cursor is the id of its last message,
\* whatever its attachments; a page request that follows a non-empty page
\* carries that id as before_id, and only the requests before the first
\* page carry none (0 stands for no before_id).
C31_CursorFollowsLastPage ==
  /\ (L.state = "fetching" /\ L.stage = "page" /\ Len(ServedPages) > 0) =>
       LET page == ServedPages[Len(ServedPages)]
       IN L.beforeId = page[Len(page)].id
  /\ \A i \in 1..Len(PageRequests) :
       LET earlier == {k \in 1..(i - 1) : PageRequests[k].status = 200}
       IN IF earlier = {} THEN PageRequests[i].before = 0
          ELSE LET page == ServerPage(history, PageRequests[Max(earlier)].before)
               IN /\ PageRequests[i].before = page[Len(page)].id
                  /\ PageRequests[i].before # 0

\* C34: apiRequest hands no response with the status 429 to
\* mediaListBuilder.
C34_NoRateLimitedResponse == L.errStatus # 429

\* C38: the listing processes no more non-empty pages than the history
\* has, so that its loop ends with the history.
C38_ListingEndsWithHistory == L.pages <= Len(history)

\* C35: no item has more than one of its handlers go on to
\* downloader(arr, curr + 1) or resolve, and when the drain has ended every
\* item that was started has exactly one.
C35_AdvancesOncePerItem ==
  /\ \A u \in Urls : d.advances[u] <= 1
  /\ DrainEnded => \A u \in Urls : d.requests[u] > 0 => d.advances[u] = 1

\* C36: when the drain has ended, the files it left in the output directory
\* are files of items whose only outcome is success.
C36_FilesOnlyOfSuccesses ==
  DrainEnded =>
    \A u \in d.disk \ d.before : d.outcomes[u] = <<"success">>

C33_GroupsInSequence ==
  [][sel'.i # sel.i => (sel'.i = sel.i + 1 /\ \A u \in Urls : ~InFlight(u))]_vars

\* job j is listing the group or draining its queue
JobRunning(j) == jobs[j].stage \in {"listing", "draining"}

\* C39: at most one processGroups call is listing or draining the group,
\* and no url has an open request in two drains.
C39_OneDrainPerGroup ==
  \A j, k \in 1..Len(jobs) :
    j # k =>
      /\ ~(JobRunning(j) /\ JobRunning(k))
      /\ \A u \in Urls :
           ~(/\ jobs[j].d.phase[u] \in {"requesting", "streaming"}
             /\ jobs[k].d.phase[u] \in {"requesting", "streaming"})

====
